---- MODULE Spec2Model ----
(***************************************************************************)
(* Phrono dashboard: the metric functions of app.py and finance_metrics.py *)
(* over price series and price tables, and the fetch / session logic of    *)
(* app.py's main().                                                        *)
(*                                                                         *)
(* Numbers are IEEE-style extended rationals [n, d]: d > 0 is the finite   *)
(* value n/d in lowest terms, d = 0 is NaN (n = 0), +inf (n = 1) or        *)
(* -inf (n = -1).  Arithmetic is exact; signed zeros are not modelled.     *)
(***************************************************************************)
EXTENDS Integers, Sequences, FiniteSets, TLC

VARIABLES
    ser,        \* SpecSeries: the input series (prices or returns)
    rfr,        \* SpecSeries: the risk-free rate argument
    sres,       \* SpecSeries: the last function applied and its result
    tbl,        \* SpecTable: the input price table (a DataFrame);
                \* SpecIndex: the frame the provider answers with
    tres,       \* SpecTable: the last table function applied and its result
    assets,     \* SpecApp: the "Assets to monitor" multiselect
    bench,      \* SpecApp: the "Primary Benchmarks" multiselect
    period,     \* SpecApp: the "History length" selectbox
    session_prices,     \* SpecApp: st.session_state['prices']
    origin,     \* SpecApp: the arguments of the fetch_prices call that
                \*          returned session_prices (history)
    ui,         \* SpecApp: how the last run of main() ended
    mfetch,     \* SpecApp: what the fetch of the last run of main() met
    cache,      \* SpecApp: the st.cache_data store of fetch_prices
    calls,      \* SpecApp: the number of yf.download calls made
    last,       \* SpecFetch: the last call of fetch_prices (history)
    hist        \* SpecFetch: per (symbols, window, interval), the last result
                \*            the body of fetch_prices returned (history)

svars == <<ser, rfr, sres>>
tvars == <<tbl, tres>>
avars == <<assets, bench, period, session_prices, origin, ui, mfetch,
          cache, calls, last, hist>>
vars == <<ser, rfr, sres, tbl, tres,
          assets, bench, period, session_prices, origin, ui, mfetch,
          cache, calls, last, hist>>

(***************************************************************************)
(* Bounds of the series model.                                             *)
(***************************************************************************)
MaxLen == 3
MaxVal == 2
\* Bounds of the table model.
MaxRows == 3
\* Bounds of the session model.
MaxRespRows == 1
MaxCalls == 2
MaxDay == 2
TickLen == 1800

(***************************************************************************)
(* Extended rational arithmetic (numpy float semantics for NaN and inf).   *)
(***************************************************************************)
NaN == [n |-> 0, d |-> 0]
PosInf == [n |-> 1, d |-> 0]
NegInf == [n |-> -1, d |-> 0]

Abs(x) == IF x < 0 THEN -x ELSE x
Sgn(x) == IF x < 0 THEN -1 ELSE IF x > 0 THEN 1 ELSE 0

RECURSIVE Gcd(_, _)
Gcd(a, b) == IF b = 0 THEN a ELSE Gcd(b, a % b)

\* n/d for d # 0, in lowest terms with a positive denominator
Rat(n, d) ==
    LET s == IF d < 0 THEN -1 ELSE 1
        g == Gcd(Abs(n), Abs(d))
    IN [n |-> (s * n) \div g, d |-> (s * d) \div g]

Num(i) == [n |-> i, d |-> 1]

IsNan(x) == x.d = 0 /\ x.n = 0
IsInf(x) == x.d = 0 /\ x.n # 0
IsFinite(x) == x.d > 0
IsZero(x) == x.d > 0 /\ x.n = 0

FNeg(a) == [n |-> -a.n, d |-> a.d]

FDiv(a, b) ==
    IF IsNan(a) \/ IsNan(b) THEN NaN
    ELSE IF IsInf(a) THEN
        IF IsInf(b) THEN NaN
        ELSE [n |-> a.n * (IF b.n < 0 THEN -1 ELSE 1), d |-> 0]
    ELSE IF IsInf(b) THEN Num(0)
    ELSE IF b.n = 0 THEN [n |-> Sgn(a.n), d |-> 0]
    ELSE Rat(a.n * b.d, a.d * b.n)

FSub(a, b) ==
    IF IsNan(a) \/ IsNan(b) THEN NaN
    ELSE IF IsInf(a) THEN (IF IsInf(b) /\ b.n = a.n THEN NaN ELSE a)
    ELSE IF IsInf(b) THEN FNeg(b)
    ELSE Rat(a.n * b.d - b.n * a.d, a.d * b.d)

FAdd(a, b) == FSub(a, FNeg(b))

FMul(a, b) ==
    IF IsNan(a) \/ IsNan(b) THEN NaN
    ELSE IF IsInf(a) \/ IsInf(b) THEN
        (IF a.n = 0 \/ b.n = 0 THEN NaN ELSE [n |-> Sgn(a.n) * Sgn(b.n), d |-> 0])
    ELSE Rat(a.n * b.n, a.d * b.d)

\* a < b for two values that are not NaN
FLess(a, b) ==
    IF IsInf(a) /\ IsInf(b) THEN a.n < b.n
    ELSE a.n * b.d < b.n * a.d

FLeq(a, b) == a = b \/ FLess(a, b)

\* x / sqrt(v) for v >= 0, kept as its signed square sgn(x) * x^2 / v:
\* the encoding is exact and keeps sign, zero, NaN and the infinities.
DivSqrt(x, v) ==
    LET q == FDiv(FMul(x, x), v)
    IN IF IsNan(x) \/ IsNan(q) THEN NaN
       ELSE IF x.n < 0 THEN FNeg(q) ELSE q

(***************************************************************************)
(* pandas Series reductions (skipna=True).                                 *)
(***************************************************************************)
Valid(s) == {i \in DOMAIN s : ~IsNan(s[i])}

RECURSIVE SumOver(_, _)
SumOver(s, I) ==
    IF I = {} THEN Num(0)
    ELSE LET i == CHOOSE j \in I : TRUE
         IN FAdd(s[i], SumOver(s, I \ {i}))

\* Series.mean(): NaN for no valid observation
Mean(s) ==
    IF Valid(s) = {} THEN NaN
    ELSE FDiv(SumOver(s, Valid(s)), Num(Cardinality(Valid(s))))

\* Series.var(ddof=1), the square of Series.std(): NaN below 2 observations
Var(s) ==
    LET n == Cardinality(Valid(s))
        m == Mean(s)
        sq == [i \in DOMAIN s |-> FMul(FSub(s[i], m), FSub(s[i], m))]
    IN IF n < 2 THEN NaN ELSE FDiv(SumOver(sq, Valid(s)), Num(n - 1))

\* Series.min(): NaN for no valid observation
SeriesMin(s) ==
    IF Valid(s) = {} THEN NaN
    ELSE s[CHOOSE i \in Valid(s) : \A j \in Valid(s) : FLeq(s[i], s[j])]

\* Series.cummax(): a NaN cell stays NaN and is skipped by the running maximum
CumMax(s) ==
    [i \in DOMAIN s |->
        IF IsNan(s[i]) THEN NaN
        ELSE LET P == {j \in Valid(s) : j <= i}
             IN s[CHOOSE j \in P : \A k \in P : FLeq(s[k], s[j])]]

(***************************************************************************)
(* app.py: sharpe_ratio, max_drawdown                                      *)
(***************************************************************************)
trading_days == 252

\* sigma != 0 in Python: NaN != 0 is True
NonZero(x) == ~IsZero(x)

sharpe_ratio(logret, rf) ==
    LET mu == FMul(Mean(logret), Num(trading_days))
        sigma2 == FMul(Var(logret), Num(trading_days))
    IN IF NonZero(sigma2) THEN DivSqrt(FSub(mu, rf), sigma2) ELSE NaN

\* max_drawdown measured from the running minimum instead of the running
\* maximum
max_drawdown_from_low(price_series) ==
    LET roll_min == [i \in DOMAIN price_series |->
                        IF IsNan(price_series[i]) THEN NaN
                        ELSE LET P == {j \in Valid(price_series) : j <= i}
                             IN price_series[CHOOSE j \in P : \A k \in P :
                                    FLeq(price_series[j], price_series[k])]]
        drawdown == [i \in DOMAIN price_series |->
                        FDiv(FSub(price_series[i], roll_min[i]), roll_min[i])]
    IN SeriesMin(drawdown)

max_drawdown(price_series) ==
    LET roll_max == CumMax(price_series)
        drawdown == [i \in DOMAIN price_series |->
                        FDiv(FSub(price_series[i], roll_max[i]), roll_max[i])]
    IN SeriesMin(drawdown)

(***************************************************************************)
(* finance_metrics.py: calculate_sharpe_ratio, calculate_max_drawdown      *)
(* (one column of the DataFrame)                                           *)
(***************************************************************************)
annualization_factor == 252

calculate_sharpe_ratio(returns, risk_free_rate) ==
    LET excess_returns == [i \in DOMAIN returns |-> FSub(returns[i], risk_free_rate)]
        mean_excess_return == Mean(excess_returns)
        var_excess_return == Var(excess_returns)
    IN FMul(DivSqrt(mean_excess_return, var_excess_return), Num(annualization_factor))

calculate_max_drawdown(prices) ==
    LET cm == CumMax(prices)
        drawdowns == [i \in DOMAIN prices |-> FSub(FDiv(prices[i], cm[i]), Num(1))]
    IN SeriesMin(drawdowns)


(***************************************************************************)
(* pandas DataFrame: [cols, rows], rows a sequence of [date, v] with v a   *)
(* function from cols to cells; the dates are the index.                   *)
(***************************************************************************)
NRows(df) == Len(df.rows)

RowAnyNan(r) == \E c \in DOMAIN r.v : IsNan(r.v[c])
RowAllNan(r) == \A c \in DOMAIN r.v : IsNan(r.v[c])
RowHasNoNan(r) == ~RowAnyNan(r)
RowHasValue(r) == ~RowAllNan(r)

\* DataFrame.dropna(): how='any'
DropnaAny(df) == [df EXCEPT !.rows = SelectSeq(df.rows, RowHasNoNan)]

\* DataFrame.dropna(how='all')
DropnaAll(df) == [df EXCEPT !.rows = SelectSeq(df.rows, RowHasValue)]

SetMax(S) == CHOOSE x \in S : \A y \in S : y <= x

\* DataFrame.ffill(): a NaN cell takes the last value above it, if any
Ffill(df) ==
    [df EXCEPT !.rows =
        [i \in 1..NRows(df) |->
            [df.rows[i] EXCEPT !.v =
                [c \in df.cols |->
                    LET P == {j \in 1..i : ~IsNan(df.rows[j].v[c])}
                    IN IF P = {} THEN NaN ELSE df.rows[SetMax(P)].v[c]]]]]

\* DataFrame.shift(1): the index stays, the values move one row down
Shift1(df) ==
    [df EXCEPT !.rows =
        [i \in 1..NRows(df) |->
            [df.rows[i] EXCEPT !.v =
                [c \in df.cols |->
                    IF i = 1 THEN NaN ELSE df.rows[i - 1].v[c]]]]]

\* a / b for two frames of the same index and columns
DivFrames(a, b) ==
    [a EXCEPT !.rows =
        [i \in 1..NRows(a) |->
            [a.rows[i] EXCEPT !.v =
                [c \in a.cols |-> FDiv(a.rows[i].v[c], b.rows[i].v[c])]]]]

\* np.log of a cell.  A logarithm ln(q) is kept as its argument q, so that
\* adding logarithms is multiplying arguments and np.exp gives q back:
\* NaN for NaN and for q < 0, q = 0 stands for -inf, q = +inf for +inf.
Ln(q) == IF IsNan(q) \/ q.n < 0 THEN NaN ELSE q

NpLog(df) ==
    [df EXCEPT !.rows =
        [i \in 1..NRows(df) |->
            [df.rows[i] EXCEPT !.v = [c \in df.cols |-> Ln(df.rows[i].v[c])]]]]

\* df[col] as a sequence of cells
Column(df, c) == [i \in 1..NRows(df) |-> df.rows[i].v[c]]

NotNan(x) == ~IsNan(x)

\* Series.dropna()
DropnaSeries(s) == SelectSeq(s, NotNan)

(***************************************************************************)
(* app.py: base100, log_returns                                            *)
(***************************************************************************)
\* df.divide(df.iloc[0]).multiply(100); df.iloc[0] raises on a frame
\* without rows
base100(df) ==
    IF NRows(df) = 0 THEN [raised |-> "IndexError", df |-> df]
    ELSE [raised |-> "none",
          df |-> [df EXCEPT !.rows =
            [i \in 1..NRows(df) |->
                [df.rows[i] EXCEPT !.v =
                    [c \in df.cols |->
                        FMul(FDiv(df.rows[i].v[c], df.rows[1].v[c]), Num(100))]]]]]

\* DataFrame.shift(-1): the values move one row up
ShiftUp(df) ==
    [df EXCEPT !.rows =
        [i \in 1..NRows(df) |->
            [df.rows[i] EXCEPT !.v =
                [c \in df.cols |->
                    IF i = NRows(df) THEN NaN ELSE df.rows[i + 1].v[c]]]]]

\* log_returns with each price divided by the next one instead of the
\* previous one
log_returns_shifted_up(df) == DropnaAny(NpLog(DivFrames(df, ShiftUp(df))))

log_returns(df) == DropnaAny(NpLog(DivFrames(df, Shift1(df))))

(***************************************************************************)
(* finance_metrics.py: calculate_log_returns, calculate_cumulative_returns *)
(***************************************************************************)
calculate_log_returns(prices) == DropnaAll(NpLog(DivFrames(prices, Shift1(prices))))

base == 100

calculate_cumulative_returns(prices) ==
    IF NRows(prices) = 0 THEN [raised |-> "IndexError", df |-> prices]
    ELSE [raised |-> "none",
          df |-> [prices EXCEPT !.rows =
            [i \in 1..NRows(prices) |->
                [prices.rows[i] EXCEPT !.v =
                    [c \in prices.cols |->
                        FMul(FDiv(prices.rows[i].v[c], prices.rows[1].v[c]),
                             Num(base))]]]]]


(***************************************************************************)
(* app.py: annualized_vol and sharpe_ratio as compute_kpis applies them,   *)
(* to a series of logarithms.  The standard deviation and the mean of      *)
(* logarithms are irrational: their class is kept (NaN, zero, sign), which *)
(* is all the branch sigma != 0 and the claims read.                       *)
(***************************************************************************)
RECURSIVE LogSumOver(_, _)
\* the sum of the logarithms lr[i], i in I, as the logarithm of a product
LogSumOver(lr, I) ==
    IF I = {} THEN Num(1)
    ELSE LET i == CHOOSE j \in I : TRUE
         IN FMul(lr[i], LogSumOver(lr, I \ {i}))

\* Series.sum() of logarithms
LogSum(lr) == LogSumOver(lr, Valid(lr))

\* np.exp of a logarithm
Exp(l) == l

\* the class of Series.std() of logarithms: "nan", "zero" or "pos"
LogStdClass(lr) ==
    IF Cardinality(Valid(lr)) < 2 THEN "nan"
    ELSE IF \E i \in Valid(lr) : IsZero(lr[i]) \/ IsInf(lr[i]) THEN "nan"
    ELSE IF \A i, j \in Valid(lr) : lr[i] = lr[j] THEN "zero"
    ELSE "pos"

\* the class of Series.mean() of logarithms: "nan", "-inf", "inf", "neg", "zero", "pos"
LogMeanClass(lr) ==
    LET p == LogSum(lr)
    IN IF Valid(lr) = {} \/ IsNan(p) THEN "nan"
       ELSE IF IsZero(p) THEN "-inf"
       ELSE IF IsInf(p) THEN "inf"
       ELSE IF FLess(p, Num(1)) THEN "neg"
       ELSE IF p = Num(1) THEN "zero"
       ELSE "pos"

annualized_vol(logret) == LogStdClass(logret)

\* sharpe_ratio(lr) with rf = 0.0: (mu - rf) / sigma if sigma != 0 else nan
sharpe_ratio_of_logs(logret) ==
    LET mu == LogMeanClass(logret)
        sigma == LogStdClass(logret)
    IN IF sigma # "zero"
       THEN (IF sigma = "nan" \/ mu = "nan" THEN "nan"
             ELSE IF mu \in {"-inf", "neg"} THEN "neg"
             ELSE IF mu = "zero" THEN "zero"
             ELSE "pos")
       ELSE "nan"

(***************************************************************************)
(* app.py: compute_kpis                                                    *)
(***************************************************************************)
decimals == 6
Scale == 10 ^ decimals

\* DataFrame.round(6) of one number: to the nearest multiple of 10^-6, ties
\* to the even one; NaN and the infinities stay
Round6(x) ==
    IF ~IsFinite(x) THEN x
    ELSE LET s == x.n * Scale
             q == s \div x.d
             r == s - q * x.d
             up == 2 * r > x.d \/ (2 * r = x.d /\ q % 2 = 1)
         IN Rat(IF up THEN q + 1 ELSE q, Scale)

\* lret of compute_kpis: log_returns(prices_df.ffill().dropna()).dropna()
KpiLogReturns(prices_df) == DropnaAny(log_returns(DropnaAny(Ffill(prices_df))))

compute_kpis(prices_df) ==
    LET lret == KpiLogReturns(prices_df)
        n == NRows(prices_df)
        lr(col) == DropnaSeries(Column(lret, col))
        kept == {col \in lret.cols : Len(lr(col)) > 0}
        daily_ret(col) ==
            IF n >= 2
            THEN FSub(FDiv(prices_df.rows[n].v[col], prices_df.rows[n - 1].v[col]), Num(1))
            ELSE Num(0)
    IN [col \in kept |->
          [DailyReturn |-> Round6(daily_ret(col)),
           AnnualizedVol |-> annualized_vol(lr(col)),
           Sharpe |-> sharpe_ratio_of_logs(lr(col)),
           CumulativeReturn |-> Round6(FSub(Exp(LogSum(lr(col))), Num(1))),
           MaxDrawdown |-> Round6(max_drawdown(DropnaSeries(Column(prices_df, col))))]]

\* The prices each log return kept in lret was computed from: the row of its
\* date and the row before it in prices_df.ffill().dropna().
KpiReturnOperands(prices_df) ==
    LET X == DropnaAny(Ffill(prices_df))
        lret == KpiLogReturns(prices_df)
    IN {[col |-> c, date |-> X.rows[i].date,
         num |-> X.rows[i].v[c], den |-> X.rows[i - 1].v[c]] :
            c \in X.cols,
            i \in {k \in 2..NRows(X) :
                    \E j \in 1..NRows(lret) : lret.rows[j].date = X.rows[k].date}}

(***************************************************************************)
(* SpecSeries: a series and a risk-free rate drawn from bounded sets, and  *)
(* the series functions applied to them.                                   *)
(***************************************************************************)
Cells == {NaN} \cup {Num(i) : i \in (-MaxVal)..MaxVal}
Rates == {Num(-1), Num(0), Num(1)}
NoRes == [op |-> "none", val |-> NaN]


IdleSeries == ser = <<>> /\ rfr = Num(0) /\ sres = NoRes

StartSeries ==
    /\ \E k \in 0..MaxLen : ser \in [1..k -> Cells]
    /\ rfr \in Rates
    /\ sres = NoRes

AppMaxDrawdown ==
    /\ sres' = [op |-> "app.max_drawdown", val |-> max_drawdown(ser)]
    /\ UNCHANGED <<ser, rfr, tvars, avars>>

FmMaxDrawdown ==
    /\ sres' = [op |-> "fm.max_drawdown", val |-> calculate_max_drawdown(ser)]
    /\ UNCHANGED <<ser, rfr, tvars, avars>>

AppSharpe ==
    /\ sres' = [op |-> "app.sharpe", val |-> sharpe_ratio(ser, rfr)]
    /\ UNCHANGED <<ser, rfr, tvars, avars>>

FmSharpe ==
    /\ sres' = [op |-> "fm.sharpe", val |-> calculate_sharpe_ratio(ser, rfr)]
    /\ UNCHANGED <<ser, rfr, tvars, avars>>

NextSeries == AppMaxDrawdown \/ FmMaxDrawdown \/ AppSharpe \/ FmSharpe

(***************************************************************************)
(* SpecTable: a price table drawn from bounded sets, and the table         *)
(* functions applied to it.                                                *)
(***************************************************************************)
Syms == {"A", "B"}
ColumnSets == {{"A"}, {"A", "B"}}
\* the cells of a price table: missing, zero, and two distinct positive prices
PriceCells == {NaN, Num(0), Num(1), Num(2)}

\* the table of k rows dated 1..k holding the cells vs
MkTable(cs, k, vs) ==
    [cols |-> cs, rows |-> [i \in 1..k |-> [date |-> i, v |-> vs[i]]]]

NoTres == [op |-> "none"]

StartTable ==
    /\ \E cs \in ColumnSets, k \in 0..MaxRows :
          \E vs \in [1..k -> [cs -> PriceCells]] : tbl = MkTable(cs, k, vs)
    /\ tres = NoTres

ComputeKpis ==
    /\ tres' = [op |-> "compute_kpis", out |-> compute_kpis(tbl),
                used |-> KpiReturnOperands(tbl)]
    /\ UNCHANGED <<tbl, svars, avars>>

AppLogReturns ==
    /\ tres' = [op |-> "app.log_returns", out |-> log_returns(tbl)]
    /\ UNCHANGED <<tbl, svars, avars>>

FmLogReturns ==
    /\ tres' = [op |-> "fm.log_returns", out |-> calculate_log_returns(tbl)]
    /\ UNCHANGED <<tbl, svars, avars>>

AppBase100 ==
    /\ tres' = [op |-> "app.base100", out |-> base100(tbl)]
    /\ UNCHANGED <<tbl, svars, avars>>

FmCumulativeReturns ==
    /\ tres' = [op |-> "fm.cumulative_returns", out |-> calculate_cumulative_returns(tbl)]
    /\ UNCHANGED <<tbl, svars, avars>>

NextTable ==
    \/ ComputeKpis
    \/ AppLogReturns
    \/ FmLogReturns
    \/ AppBase100
    \/ FmCumulativeReturns

IdleTable == tbl = [cols |-> {"A"}, rows |-> <<>>] /\ tres = NoTres


(***************************************************************************)
(* app.py: fetch_prices behind st.cache_data(ttl=3600).  In the session    *)
(* model a price table is kept as its columns and its number of rows, and  *)
(* a cache entry carries its age in seconds instead of its time of entry.  *)
(***************************************************************************)
ttl == 3600

EmptyTable == [cols |-> {}, nrows |-> 0]

\* DataFrame.empty
IsEmpty(df) == df.cols = {} \/ df.nrows = 0

\* What yf.download can answer for the tickers: an exception, or a frame of
\* nrows rows with a column per ticker under the price field it carries
\* ("none": neither 'Adj Close' nor 'Close').
Responses ==
    {[kind |-> "error", field |-> "none", nrows |-> 0]}
    \cup {[kind |-> "data", field |-> f, nrows |-> n] :
            f \in {"Adj Close", "Close", "none"}, n \in 0..MaxRespRows}

\* a body of fetch_prices that treats a zero-row answer as a failure
fetch_body_raising_on_empty(tickers, resp) ==
    IF tickers = {} THEN
        [raised |-> FALSE, net |-> FALSE, val |-> EmptyTable]
    ELSE IF resp.kind = "error" \/ resp.nrows = 0 THEN
        [raised |-> TRUE, net |-> TRUE, val |-> EmptyTable]
    ELSE IF resp.field = "none" THEN
        [raised |-> FALSE, net |-> TRUE, val |-> EmptyTable]
    ELSE
        [raised |-> FALSE, net |-> TRUE,
         val |-> [cols |-> tickers, nrows |-> resp.nrows]]

\* the body of fetch_prices
fetch_body(tickers, resp) ==
    IF tickers = {} THEN
        [raised |-> FALSE, net |-> FALSE, val |-> EmptyTable]
    ELSE IF resp.kind = "error" THEN
        [raised |-> TRUE, net |-> TRUE, val |-> EmptyTable]
    ELSE IF resp.nrows = 0 THEN
        \* data.empty
        [raised |-> FALSE, net |-> TRUE, val |-> EmptyTable]
    ELSE IF resp.field = "none" THEN
        \* df = pd.DataFrame()
        [raised |-> FALSE, net |-> TRUE, val |-> EmptyTable]
    ELSE
        \* 'Adj Close', else 'Close'
        [raised |-> FALSE, net |-> TRUE,
         val |-> [cols |-> tickers, nrows |-> resp.nrows]]

Key(t, p, i) == [tickers |-> t, period |-> p, interval |-> i]

\* a cache key that leaves the window out
CacheKey_without_period(t, p, i) == Key(t, "3y", i)

\* st.cache_data keys an entry by the function's arguments
CacheKey(t, p, i) == Key(t, p, i)

\* an entry is served while it is younger than ttl
Live(store, k) == k \in DOMAIN store /\ store[k].age < ttl

Store(store, k, e) ==
    [x \in DOMAIN store \cup {k} |-> IF x = k THEN e ELSE store[x]]

\* a call of the decorated fetch_prices: its outcome and the store after it
fetch_prices(tickers, p, i, resp) ==
    LET k == CacheKey(tickers, p, i)
        b == fetch_body(tickers, resp)
    IN IF Live(cache, k)
       THEN [raised |-> FALSE, net |-> FALSE, val |-> cache[k].val, cache |-> cache]
       ELSE [raised |-> b.raised, net |-> b.net, val |-> b.val,
             cache |-> IF b.raised THEN cache
                       ELSE Store(cache, k, [val |-> b.val, age |-> 0])]

\* what the call met: the provider's exception, its zero-row or its filled
\* answer, or no provider at all (a cache hit, or no symbol to ask for)
Met(r, resp) ==
    IF ~r.net THEN "none"
    ELSE IF resp.kind = "error" THEN "error"
    ELSE IF resp.nrows = 0 THEN "zero"
    ELSE "data"

\* the history of a call of fetch_prices: its symbols, what it met, whether
\* a result of its (symbols, window, interval) was less than ttl old and
\* whether it returned that result again, and how it ended
CallRecord(tickers, p, i, resp, r) ==
    LET k == Key(tickers, p, i)
    IN [tickers |-> tickers, met |-> Met(r, resp),
        fresh |-> Live(hist, k),
        same |-> Live(hist, k) /\ ~r.raised /\ r.val = hist[k].val,
        net |-> r.net, raised |-> r.raised, val |-> r.val]

\* the last result the body returned for (symbols, window, interval)
HistAfter(tickers, p, i, r) ==
    LET k == Key(tickers, p, i)
    IN IF Live(hist, k) \/ r.raised THEN hist
       ELSE Store(hist, k, [val |-> r.val, age |-> 0])

(***************************************************************************)
(* app.py: main(), one run of the script                                   *)
(***************************************************************************)
\* submitted or st.session_state['prices'].empty
WantsFetch(submitted) == submitted \/ IsEmpty(session_prices)

\* a data fetching logic that clears the session table when the fetch fails
SessionAfter_clearing_on_error(a, submitted, r) ==
    IF ~WantsFetch(submitted) THEN session_prices
    ELSE IF a = {} THEN EmptyTable
    ELSE IF r.raised THEN EmptyTable
    ELSE r.val

\* st.session_state['prices'] after the data fetching logic
SessionAfter(a, submitted, r) ==
    IF ~WantsFetch(submitted) THEN session_prices
    ELSE IF a = {} THEN EmptyTable
    ELSE IF r.raised THEN session_prices
    ELSE r.val

NoOrigin == [tickers |-> {}, period |-> "none"]

\* the arguments of the call that returned the session table, after the data
\* fetching logic: those of this run's call when its result is stored
OriginAfter(a, b, p, submitted, r) ==
    IF ~WantsFetch(submitted) THEN origin
    ELSE IF a = {} THEN NoOrigin
    ELSE IF r.raised THEN origin
    ELSE [tickers |-> a \cup b, period |-> p]

\* how the run ends, given the session table pr it goes on with: st.error,
\* one of the two st.warning, or the KPIs and charts
Outcome(a, submitted, r, pr) ==
    IF WantsFetch(submitted) /\ a = {} THEN "select"
    ELSE IF WantsFetch(submitted) /\ r.raised THEN "error"
    ELSE IF pr.cols \cap a = {} \/ pr.nrows = 0 THEN "nodata"
    ELSE "render"

NoFetch == [raised |-> FALSE, net |-> FALSE, val |-> EmptyTable, cache |-> cache]

\* one run of main() with the widget values a, b, p
Main(a, b, p, submitted) ==
    /\ assets' = a /\ bench' = b /\ period' = p
    /\ IF WantsFetch(submitted) /\ a # {}
       THEN \E resp \in Responses :
              LET r == fetch_prices(a \cup b, p, "1d", resp)
              IN /\ calls + (IF r.net THEN 1 ELSE 0) <= MaxCalls
                 /\ session_prices' = SessionAfter(a, submitted, r)
                 /\ origin' = OriginAfter(a, b, p, submitted, r)
                 /\ ui' = Outcome(a, submitted, r, session_prices')
                 /\ mfetch' = (IF r.net THEN Met(r, resp) ELSE "hit")
                 /\ cache' = r.cache
                 /\ calls' = calls + (IF r.net THEN 1 ELSE 0)
       ELSE /\ session_prices' = SessionAfter(a, submitted, NoFetch)
            /\ origin' = OriginAfter(a, b, p, submitted, NoFetch)
            /\ ui' = Outcome(a, submitted, NoFetch, session_prices')
            /\ mfetch' = "none"
            /\ UNCHANGED <<cache, calls>>
    /\ UNCHANGED <<last, hist, svars, tvars>>

AssetOptions == {"A", "B"}
BenchOptions == {"B"}
Periods == {"1y", "3y"}

\* the first load of the page, or a rerun that changes no widget
Rerun == Main(assets, bench, period, FALSE)

SelectAssets == \E a \in SUBSET AssetOptions : a # assets /\ Main(a, bench, period, FALSE)

SelectBenchmarks == \E b \in SUBSET BenchOptions : b # bench /\ Main(assets, b, period, FALSE)

SelectPeriod == \E p \in Periods : p # period /\ Main(assets, bench, p, FALSE)

\* the "Refresh Data" button of the form
Refresh == Main(assets, bench, period, TRUE)

\* the arguments fetch_prices is called with on its own: one call and those
\* that differ from it in the symbols, the window or the interval
FetchArgs ==
    {Key({"A"}, "3y", "1d"), Key({"A", "B"}, "3y", "1d"), Key({}, "3y", "1d"),
     Key({"A"}, "1y", "1d"), Key({"A"}, "3y", "1wk")}

\* fetch_prices called on its own
Fetch ==
    \E k \in FetchArgs : \E resp \in Responses :
        LET r == fetch_prices(k.tickers, k.period, k.interval, resp)
        IN /\ calls + (IF r.net THEN 1 ELSE 0) <= MaxCalls
           /\ cache' = r.cache
           /\ calls' = calls + (IF r.net THEN 1 ELSE 0)
           /\ last' = CallRecord(k.tickers, k.period, k.interval, resp, r)
           /\ hist' = HistAfter(k.tickers, k.period, k.interval, r)
           /\ UNCHANGED <<assets, bench, period, session_prices, origin, ui, mfetch,
                          svars, tvars>>

\* TickLen seconds later: an entry that reached ttl is never served again
Aged(store) ==
    [k \in {x \in DOMAIN store : store[x].age + TickLen < ttl} |->
        [store[k] EXCEPT !.age = @ + TickLen]]

\* time passes
Tick ==
    /\ cache # << >> \/ hist # << >>
    /\ cache' = Aged(cache)
    /\ hist' = Aged(hist)
    /\ UNCHANGED <<assets, bench, period, session_prices, origin, ui, mfetch,
                   calls, last, svars, tvars>>

NoCall ==
    [tickers |-> {}, met |-> "start", fresh |-> FALSE, same |-> FALSE,
     net |-> FALSE, raised |-> FALSE, val |-> EmptyTable]

\* the session before the first run: the widgets' defaults and the empty
\* table of st.session_state
SessionStart ==
    /\ assets = {"A"} /\ bench = {"B"} /\ period = "3y"
    /\ session_prices = EmptyTable
    /\ origin = NoOrigin
    /\ ui = "start" /\ mfetch = "none"
    /\ cache = << >> /\ hist = << >>
    /\ calls = 0
    /\ last = NoCall

IdleApp == SessionStart

NextApp ==
    \/ Rerun
    \/ SelectAssets
    \/ SelectBenchmarks
    \/ SelectPeriod
    \/ Refresh
    \/ Tick

NextFetch == Fetch \/ Tick

InitSeries == StartSeries /\ IdleTable /\ IdleApp
InitTable == StartTable /\ IdleSeries /\ IdleApp
InitApp == SessionStart /\ IdleSeries /\ IdleTable

SpecSeries == InitSeries /\ [][NextSeries]_vars

SpecTable == InitTable /\ [][NextTable]_vars

SpecApp == InitApp /\ [][NextApp]_vars

SpecFetch == InitApp /\ [][NextFetch]_vars

(***************************************************************************)
(* SpecIndex: the date index of a fetched table.  The provider's frame is  *)
(* indexed by timestamps, counted in hours; its rows come in any order and *)
(* several of them may fall on one calendar date.                          *)
(***************************************************************************)
\* the hours of the day a provider timestamp can carry
Slots == {0, 12}
Stamps == {24 * d + h : d \in 1..MaxDay, h \in Slots}
QuoteCells == {NaN, Num(1), Num(2)}

\* pd.to_datetime(ts).date(): the calendar date of a timestamp
ToDate(ts) == ts \div 24

\* the frame of k rows indexed by the timestamps ts holding the cells vs
MkResponse(cs, k, ts, vs) ==
    [cols |-> cs, rows |-> [i \in 1..k |-> [date |-> ts[i], v |-> vs[i]]]]

\* df.index = pd.to_datetime(df.index).date
DateIndexed(df) ==
    [df EXCEPT !.rows = [i \in 1..NRows(df) |->
                            [df.rows[i] EXCEPT !.date = ToDate(@)]]]

\* the orders DataFrame.sort_index() can leave the rows in: ascending by
\* index, rows of equal index in an order the sort does not promise
SortOrders(df) ==
    {p \in [1..NRows(df) -> 1..NRows(df)] :
        /\ \A i, j \in 1..NRows(df) : i # j => p[i] # p[j]
        /\ \A i, j \in 1..NRows(df) :
              i < j => df.rows[p[i]].date <= df.rows[p[j]].date}

Reordered(df, p) == [df EXCEPT !.rows = [i \in 1..NRows(df) |-> df.rows[p[i]]]]

\* DataFrame.bfill(): a NaN cell takes the next valid cell below it
Bfill(df) ==
    [df EXCEPT !.rows =
        [i \in 1..NRows(df) |->
            [df.rows[i] EXCEPT !.v =
                [c \in df.cols |->
                    LET N == {j \in i..NRows(df) : ~IsNan(df.rows[j].v[c])}
                    IN IF N = {} THEN NaN
                       ELSE df.rows[CHOOSE j \in N : \A k \in N : j <= k].v[c]]]]]

\* finance_data.py: what download_price_data does to the provider's frame
download_price_data(data) == DropnaAll(Bfill(Ffill(data)))

StartIndex ==
    /\ \E k \in 0..MaxRows :
          \E ts \in [1..k -> Stamps], vs \in [1..k -> [{"A"} -> QuoteCells]] :
              tbl = MkResponse({"A"}, k, ts, vs)
    /\ tres = NoTres

\* the last two lines of fetch_prices, on the provider's frame
FetchIndex ==
    /\ \E p \in SortOrders(DateIndexed(tbl)) :
          tres' = [op |-> "app.fetch_prices",
                   out |-> DropnaAll(Reordered(DateIndexed(tbl), p))]
    /\ UNCHANGED <<tbl, svars, avars>>

DownloadPriceData ==
    /\ tres' = [op |-> "fd.download_price_data", out |-> download_price_data(tbl)]
    /\ UNCHANGED <<tbl, svars, avars>>

NextIndex == FetchIndex \/ DownloadPriceData

InitIndex == StartIndex /\ IdleSeries /\ IdleApp

SpecIndex == InitIndex /\ [][NextIndex]_vars

(***************************************************************************)
(* Claims about the series functions.                                      *)
(***************************************************************************)
IsDrawdownRes == sres.op \in {"app.max_drawdown", "fm.max_drawdown"}
IsSharpeRes == sres.op \in {"app.sharpe", "fm.sharpe"}

NonPositive(x) == ~IsNan(x) /\ FLeq(x, Num(0))

\* every cell is a price and each is above the one before it
StrictlyIncreasing(s) ==
    /\ Valid(s) = DOMAIN s
    /\ \A i \in DOMAIN s : i > 1 => FLess(s[i - 1], s[i])

\* no cell is below zero, and some cell is a price above zero
HasPositivePrice(s) ==
    /\ \A i \in Valid(s) : s[i].n >= 0
    /\ \E i \in Valid(s) : s[i].n > 0

\* C5 as stated: for every price series max_drawdown is <= 0, and it is
\* exactly 0 for every strictly increasing series (both implementations).
C5_DrawdownAlwaysNonPositive ==
    IsDrawdownRes =>
        /\ NonPositive(sres.val)
        /\ StrictlyIncreasing(ser) => sres.val = Num(0)

\* C5 amended: for every series of non-negative prices holding at least one
\* non-missing price above zero, max_drawdown is <= 0 (never positive, never
\* NaN), and it is exactly 0 when that series is strictly increasing (both
\* implementations).
C5_DrawdownNonPositive ==
    (IsDrawdownRes /\ HasPositivePrice(ser)) =>
        /\ NonPositive(sres.val)
        /\ StrictlyIncreasing(ser) => sres.val = Num(0)

C5_Witness ==
    /\ sres.op = "app.max_drawdown"
    /\ Len(ser) = MaxLen
    /\ HasPositivePrice(ser)
    /\ ~StrictlyIncreasing(ser)
    /\ IsFinite(sres.val) /\ sres.val.n < 0

\* at least two observations, all equal
ZeroVariance(s) ==
    /\ Cardinality(Valid(s)) >= 2
    /\ \A i, j \in Valid(s) : s[i] = s[j]

SinglePoint(s) == Cardinality(Valid(s)) = 1

\* C6: for a return series of zero variance or of a single point, and every
\* risk-free rate, sharpe_ratio is NaN, never +inf or -inf (both
\* implementations).
C6_SharpeUndefinedIsNaN ==
    (IsSharpeRes /\ (ZeroVariance(ser) \/ SinglePoint(ser))) => IsNan(sres.val)

(***************************************************************************)
(* Claims about the table functions.                                       *)
(***************************************************************************)
ColumnAllNan(df, c) == \A i \in 1..NRows(df) : IsNan(df.rows[i].v[c])
ValidCount(df, c) == Cardinality({i \in 1..NRows(df) : ~IsNan(df.rows[i].v[c])})
Positive(x) == ~IsNan(x) /\ x.n > 0

\* C2: when one symbol's column is all NaN and every other symbol has at
\* least 2 valid prices, compute_kpis returns a record for exactly the other
\* symbols.
C2_MissingColumnOmittedOnly ==
    tres.op = "compute_kpis" =>
        \A m \in tbl.cols :
            (/\ NRows(tbl) >= 1
             /\ ColumnAllNan(tbl, m)
             /\ \A c \in tbl.cols \ {m} : ValidCount(tbl, c) >= 2)
            => DOMAIN tres.out = tbl.cols \ {m}

IsBase100Res == tres.op \in {"app.base100", "fm.cumulative_returns"}

\* C7: for every non-empty forward-filled price table (a column's earliest
\* dates may be missing) the first row of the base-100 output is 100 in
\* every column (both implementations).
C7_FirstRowIs100 ==
    (IsBase100Res /\ NRows(tbl) >= 1 /\ tbl = Ffill(tbl)) =>
        /\ tres.out.raised = "none"
        /\ \A c \in tbl.cols : tres.out.df.rows[1].v[c] = Num(100)

IsLogReturnsRes == tres.op \in {"app.log_returns", "fm.log_returns"}

\* the log return of symbol c on date t > 1 of the input table
ReturnOn(t, c) == Ln(FDiv(tbl.rows[t].v[c], tbl.rows[t - 1].v[c]))

OutDates == {tres.out.rows[j].date : j \in 1..NRows(tres.out)}

\* C8: the returns table has no row for the first date, has a row for a
\* later date iff at least one symbol has a return that is not NaN on that
\* date, and holds in that row every symbol's return, NaN where it has none
\* (both implementations).
C8_PartialRowsRetained ==
    IsLogReturnsRes =>
        /\ 1 \notin OutDates
        /\ \A t \in 2..NRows(tbl) :
              (t \in OutDates) <=> (\E c \in tbl.cols : ~IsNan(ReturnOn(t, c)))
        /\ \A j \in 1..NRows(tres.out) : \A c \in tbl.cols :
              tres.out.rows[j].date > 1 =>
                  tres.out.rows[j].v[c] = ReturnOn(tres.out.rows[j].date, c)

\* C9: no log return that compute_kpis uses is the logarithm of a ratio whose
\* numerator or denominator is a non-positive price.
C9_NoNonPositiveOperand ==
    tres.op = "compute_kpis" =>
        \A o \in tres.used : Positive(o.num) /\ Positive(o.den)

AllPositive(df) ==
    \A i \in 1..NRows(df) : \A c \in df.cols : Positive(df.rows[i].v[c])

\* |a - b| <= 10^-6 / 2, the error of DataFrame.round(6)
WithinRounding(a, b) ==
    LET e == FSub(a, b)
    IN IsFinite(e) /\ 2 * Scale * Abs(e.n) <= e.d

LastOverFirst(df, c) ==
    FSub(FDiv(df.rows[NRows(df)].v[c], df.rows[1].v[c]), Num(1))

\* C10: for a price table of at least 2 rows whose prices are all present
\* and strictly positive, every symbol has a KPI record and its Cumulative
\* Return is last price / first price - 1, up to the rounding to 6 decimals.
C10_CumulativeReturnTelescopes ==
    (tres.op = "compute_kpis" /\ NRows(tbl) >= 2 /\ AllPositive(tbl)) =>
        \A c \in tbl.cols :
            /\ c \in DOMAIN tres.out
            /\ WithinRounding(tres.out[c].CumulativeReturn, LastOverFirst(tbl, c))

C10_Witness ==
    /\ tres.op = "compute_kpis"
    /\ NRows(tbl) = MaxRows
    /\ AllPositive(tbl)
    /\ tbl.cols = Syms
    /\ \A c \in tbl.cols :
          /\ tbl.rows[1].v[c] # tbl.rows[2].v[c]
          /\ tbl.rows[1].v[c] # tbl.rows[NRows(tbl)].v[c]
          /\ c \in DOMAIN tres.out

(***************************************************************************)
(* Claims about the session and the fetch cache.                           *)
(***************************************************************************)
\* C1: a run of main() whose fetch raises leaves st.session_state['prices']
\* exactly as it was, and ends in the error message.
C1_FailedFetchKeepsSession ==
    [][(calls' = calls + 1 /\ mfetch' = "error")
        => (session_prices' = session_prices /\ ui' = "error")]_vars

C1_Witness ==
    /\ ui = "error" /\ mfetch = "error"
    /\ ~IsEmpty(session_prices)

\* C3: a run of main() ends in the error message exactly when its fetch met
\* a provider error; a zero-row answer gives the empty table and the "no
\* data" warning; an empty selection gives the empty table and a warning,
\* without any fetch.
C3_EmptyIsNotFailure ==
    /\ (mfetch = "error") <=> (ui = "error")
    /\ mfetch = "zero" => (ui = "nodata" /\ session_prices = EmptyTable)
    /\ ui = "select" => (assets = {} /\ mfetch = "none" /\ session_prices = EmptyTable)
    /\ (assets = {} /\ ui # "start") => ui \in {"select", "nodata"}

C3_Witness ==
    /\ ui = "nodata" /\ mfetch = "zero"
    /\ calls = MaxCalls

\* C4 as stated: a call whose (symbols, window, interval) has a result less
\* than ttl old returns that result without a network call, and every other
\* call makes a network call.
C4_EveryOtherKeyCallsNetwork ==
    last.met # "start" =>
        /\ last.fresh => (~last.net /\ ~last.raised /\ last.same)
        /\ ~last.fresh => last.net

\* C4 amended: a call whose (symbols, window, interval) has a result less
\* than ttl old returns that result without a network call, and every other
\* call with a non-empty symbol set makes a network call.
C4_CacheHitWithinTtl ==
    last.met # "start" =>
        /\ last.fresh => (~last.net /\ ~last.raised /\ last.same)
        /\ (~last.fresh /\ last.tickers # {}) => last.net

C4_Witness ==
    /\ last.fresh /\ last.same /\ ~last.net
    /\ ~IsEmpty(last.val)
    /\ calls = 1

(***************************************************************************)
(* Claims about the date index of a fetched table.                         *)
(***************************************************************************)
IsIndexRes == tres.op \in {"app.fetch_prices", "fd.download_price_data"}

\* the last row of the provider's frame that falls on the calendar date d
LastOn(d) ==
    LET I == {i \in 1..NRows(tbl) : ToDate(tbl.rows[i].date) = d}
    IN tbl.rows[CHOOSE i \in I : \A j \in I : j <= i]

\* C11: for every provider frame, rows in any order and several timestamps
\* on one calendar date included, the index of the fetched table is strictly
\* ascending (so free of duplicates), and the row kept for a date holds the
\* values of the provider's last row on that date.
C11_StrictlyAscendingDates ==
    IsIndexRes =>
        /\ \A j \in 2..NRows(tres.out) :
              tres.out.rows[j - 1].date < tres.out.rows[j].date
        /\ tres.op = "app.fetch_prices" =>
              \A j \in 1..NRows(tres.out) :
                  tres.out.rows[j].v = LastOn(tres.out.rows[j].date).v

(***************************************************************************)
(* Claims about what main() renders.                                       *)
(***************************************************************************)
\* C12: whenever a run of main() reaches the KPIs and charts, the session
\* table it renders from was returned by a fetch_prices call made for the
\* selected history length and the union of the selected assets and
\* benchmarks.
C12_RendersCurrentSelection ==
    ui = "render" =>
        origin = [tickers |-> assets \cup bench, period |-> period]

====
